---- MODULE Spec2Model ----
(***************************************************************************)
(* A model of the renter's contract set and contract editor               *)
(* (modules/renter/proto: editor.go and the ContractSet that follows it   *)
(* in the same source file).                                               *)
(*                                                                         *)
(* Threads of control:                                                     *)
(*   Editors  - each owner thread builds one Editor with NewEditor and     *)
(*              then calls Upload on it, serially;                         *)
(*   Clients  - callers of ContractSet.Acquire / Return / Delete / View /  *)
(*              ViewAll / IDs / Len;                                       *)
(*   Closers  - threads that call Editor.Close, concurrently with each     *)
(*              other and with the owner thread.                           *)
(* Every critical section of ContractSet.mu is one atomic step; every      *)
(* SafeContract.mu Lock/Unlock and every network or disk call is a step of *)
(* its own.                                                                *)
(***************************************************************************)
EXTENDS Integers, Sequences, FiniteSets, TLC

\* ------------------------------------------------------------------ bounds
\* Upload calls issued in a run, on all Editors together.
MaxUploads == 2
\* Close calls issued by one closing thread.
MaxCloses == 1
\* the longest journal handed to a replay on its own
MaxLog == 3

\* ------------------------------------------------------- process identities
Editors == {"e1", "e2"}
Clients == {"p1", "p2"}
Closers == {"k1", "k2"}
NoOne == "nobody"

\* ------------------------------------------------------------ program data
\* types.FileContractID values of the contracts the set was built with.
IDs == {"c1", "c2"}
\* the sector payloads each owner thread hands to Upload, named by their content
Data == [ e1 |-> {1}, e2 |-> {2} ]

\* modules.SectorSize: 4 MiB
SectorSize == 4194304
\* 1 / hostPriceLeeway of the Standard build (0.002)
hostPriceLeewayInv == 500
\* NewWindowEnd of the contracts' last revision
WindowEnd == 2
\* the block height each owner thread calls NewEditor with (never past the
\* window end: the subtraction NewWindowEnd - he.height is unsigned)
Heights == [ e1 |-> {1}, e2 |-> {0} ]

\* modules.HostDBEntry: per-byte prices, collateral rate, version, public key
Hosts ==
  [ h1 |-> [PublicKey |-> "h1", StoragePrice |-> 1, UploadBandwidthPrice |-> 1,
            Collateral |-> 1, Version |-> <<1, 0, 1>>],
    h2 |-> [PublicKey |-> "h2", StoragePrice |-> 1, UploadBandwidthPrice |-> 1,
            Collateral |-> 1, Version |-> <<1, 3, 0>>] ]
HostKeys == {"h1", "h2"}
\* the host each contract was formed with
HostOf == [ c1 |-> "h1", c2 |-> "h2" ]

\* ------------------------------------------------------------------ hashes
\* A crypto.Hash is modelled by the expression that produced it, written in
\* prefix form as a sequence of integers: a sector root is <<d>> (d >= 1, the
\* payload), an interior node is <<0>> \o left \o right, and the zero hash is
\* the empty sequence.  Prefix form is uniquely decodable, so two hashes are
\* equal exactly when they were computed from the same tree.
ZeroHash == << >>

\* crypto.MerkleRoot(data)
MerkleRoot(d) == << d >>

Join(l, r) == << 0 >> \o l \o r

RECURSIVE SplitPoint(_, _)
\* the largest power of two strictly below n (n >= 2), searched from k
SplitPoint(n, k) == IF 2 * k >= n THEN k ELSE SplitPoint(n, 2 * k)

RECURSIVE cachedMerkleRoot(_)
\* the root of the tree whose leaves are the given sector roots, in order
cachedMerkleRoot(roots) ==
  IF Len(roots) = 0 THEN ZeroHash
  ELSE IF Len(roots) = 1 THEN roots[1]
  ELSE LET k == SplitPoint(Len(roots), 1)
       IN Join(cachedMerkleRoot(SubSeq(roots, 1, k)),
               cachedMerkleRoot(SubSeq(roots, k + 1, Len(roots))))

\* ----------------------------------------------------------------- pricing
\* Currency.MulFloat(1 + hostPriceLeeway): the floor of x times the float64
\* nearest to 1.002, which lies just above 1.002
MulFloatUp(x) == x + (x \div hostPriceLeewayInv)

\* Currency.MulFloat(1 - hostPriceLeeway): the floor of x times the float64
\* nearest to 0.998, which lies just below 0.998
MulFloatDown(x) == IF x = 0 THEN 0 ELSE x - (x \div hostPriceLeewayInv) - 1

RECURSIVE VersionCmp(_, _)
\* build.VersionCmp: -1, 0 or 1 as version a is below, equal to or above b
VersionCmp(a, b) ==
  IF Len(a) = 0 /\ Len(b) = 0 THEN 0
  ELSE IF Len(a) = 0 THEN -1
  ELSE IF Len(b) = 0 THEN 1
  ELSE IF a[1] < b[1] THEN -1
  ELSE IF a[1] > b[1] THEN 1
  ELSE VersionCmp(Tail(a), Tail(b))

\* the version above which the leeway is applied
LeewayVersion == << 1, 0, 1 >>

HasLeeway(host) == VersionCmp(host.Version, LeewayVersion) > 0

\* blockBytes: sector size times the blocks left until the window ends
blockBytes(contract, height) == SectorSize * (contract.NewWindowEnd - height)

sectorStoragePrice(host, contract, height) ==
  LET p == host.StoragePrice * blockBytes(contract, height)
  IN IF HasLeeway(host) THEN MulFloatUp(p) ELSE p

sectorBandwidthPrice(host) ==
  LET p == host.UploadBandwidthPrice * SectorSize
  IN IF HasLeeway(host) THEN MulFloatUp(p) ELSE p

sectorCollateral(host, contract, height) ==
  LET p == host.Collateral * blockBytes(contract, height)
  IN IF HasLeeway(host) THEN MulFloatDown(p) ELSE p

sectorPrice(host, contract, height) ==
  sectorStoragePrice(host, contract, height) + sectorBandwidthPrice(host)

\* ---------------------------------------------------------------- contracts
\* contractHeader: the fields of the latest revision the editor reads, and
\* the spending totals RecordUpload maintains.
\*   RenterFunds  = NewValidProofOutputs[0].Value
\*   MissedHost   = NewMissedProofOutputs[1].Value
ZeroHeader ==
  [ID |-> "", HostPublicKey |-> "", NewRevisionNumber |-> 0, RenterFunds |-> 0,
   MissedHost |-> 0, NewWindowEnd |-> 0, NewFileMerkleRoot |-> ZeroHash,
   StorageSpending |-> 0, UploadSpending |-> 0]

\* the contracts the set holds at the start, formed with one revision and no
\* sectors: c1 has the funds of exactly one sector (at height 1), c2 those of
\* three, and both have the collateral of two
InitHeader(c) ==
  LET h0 == [ZeroHeader EXCEPT !.ID = c, !.HostPublicKey = HostOf[c],
                               !.NewRevisionNumber = 1, !.NewWindowEnd = WindowEnd]
      host == Hosts[HostOf[c]]
  IN [h0 EXCEPT !.RenterFunds = IF c = "c1" THEN sectorPrice(host, h0, 1)
                                ELSE 4 * sectorPrice(host, h0, 1),
                !.MissedHost = 3 * sectorCollateral(host, h0, 1)]

\* newUploadRevision: the next revision, with the new root, the price moved
\* from the renter to the host and the collateral moved out of the host's
\* missed-proof output
newUploadRevision(current, merkleRoot, price, collateral) ==
  [current EXCEPT !.NewRevisionNumber = current.NewRevisionNumber + 1,
                  !.NewFileMerkleRoot = merkleRoot,
                  !.RenterFunds = current.RenterFunds - price,
                  !.MissedHost = current.MissedHost - collateral]

\* SafeContract.Metadata: the redacted snapshot (no sector roots)
Metadata(h) ==
  [ID |-> h.ID, HostPublicKey |-> h.HostPublicKey, RenterFunds |-> h.RenterFunds,
   NewRevisionNumber |-> h.NewRevisionNumber,
   NewFileMerkleRoot |-> h.NewFileMerkleRoot,
   StorageSpending |-> h.StorageSpending, UploadSpending |-> h.UploadSpending]

\* ContractMetadata{}
ZeroMetadata == Metadata(ZeroHeader)

\* --------------------------------------------------------------------- state
VARIABLES
  contracts,    \* ContractSet.contracts: the ids present in the map
  header,       \* SafeContract.header of each contract object
  merkleRoots,  \* SafeContract.merkleRoots of each contract object
  mu,           \* SafeContract.mu of each contract object: the thread holding it
  wal,          \* the journal: records written and flushed, not yet released
  disk,         \* the contract files: header and roots as last synced
  reg,          \* "open": the set the run began with; "recovered": the set a later
                \* NewContractSet returned; "failed": NewContractSet returned an error
  hdb,          \* the host database's interaction counters
  ed,           \* the Editor of each owner thread and the thread's position
  cl,           \* the ContractSet callers
  ck            \* the threads calling Editor.Close

vars == << contracts, header, merkleRoots, mu, wal, disk, reg, hdb, ed, cl, ck >>

ZeroPre == [header |-> ZeroHeader, roots |-> << >>, disk |-> [header |-> ZeroHeader, roots |-> << >>]]

\* no Editor yet
EdInit ==
  [pc |-> "new", made |-> FALSE, id |-> "", host |-> "", height |-> 0,
   conn |-> "none", closeChan |-> "none", chanCloses |-> 0,
   once |-> "fresh", shutdowns |-> 0, uploads |-> 0,
   contract |-> ZeroHeader, data |-> 0, idx |-> 0, rev |-> ZeroHeader,
   txn |-> ZeroHeader, nerr |-> "", err |-> "", io |-> FALSE, pre |-> ZeroPre,
   cancel |-> "idle", watcher |-> "none"]

NoResult == [op |-> "", ok |-> FALSE, md |-> ZeroMetadata, all |-> {}, ids |-> {}, n |-> 0]

ClInit == [pc |-> "idle", id |-> "", res |-> NoResult]

CkInit == [pc |-> "idle", e |-> "", calls |-> 0]

Init ==
  /\ contracts = IDs
  /\ header = [c \in IDs |-> InitHeader(c)]
  /\ merkleRoots = [c \in IDs |-> << >>]
  /\ mu = [c \in IDs |-> NoOne]
  /\ wal = << >>
  /\ disk = [c \in IDs |-> [header |-> InitHeader(c), roots |-> << >>]]
  /\ reg = "open"
  /\ hdb = [succ |-> [k \in HostKeys |-> 0], fail |-> [k \in HostKeys |-> 0]]
  /\ ed = [e \in Editors |-> EdInit]
  /\ cl = [p \in Clients |-> ClInit]
  /\ ck = [k \in Closers |-> CkInit]

\* hostDB.IncrementSuccessfulInteractions / IncrementFailedInteractions
IncrementSuccessfulInteractions(db, key) == [db EXCEPT !.succ[key] = @ + 1]

IncrementFailedInteractions(db, key) == [db EXCEPT !.fail[key] = @ + 1]

\* ------------------------------------------------------------- ContractSet
\* there is a ContractSet to call
RegOpen == reg \in {"open", "recovered"}

\* safeContract, ok := cs.contracts[id], read under cs.mu
Present(id) == id \in contracts

\* a Lock that does not wait for the holder
CanLockNoWait(id) == TRUE

\* a Lock that waits until no contract at all is held
CanLockWhenAllFree(id) == \A c \in IDs : mu[c] = NoOne

\* safeContract.mu.Lock() returns only when no thread holds the mutex
CanLock(id) == mu[id] = NoOne

\* ---- Acquire, Return and Delete as the plain callers of the set use them
Acquire_Lookup(p) ==
  /\ RegOpen /\ cl[p].pc = "idle"
  /\ \E id \in IDs :
       cl' = [cl EXCEPT ![p] =
                IF Present(id)
                THEN [pc |-> "acq_wait", id |-> id, res |-> NoResult]
                ELSE [pc |-> "idle", id |-> "", res |-> NoResult]]
  /\ UNCHANGED << contracts, header, merkleRoots, mu, wal, disk, reg, hdb, ed, ck >>

Acquire_Lock(p) ==
  /\ cl[p].pc = "acq_wait"
  /\ CanLock(cl[p].id)
  /\ mu' = [mu EXCEPT ![cl[p].id] = p]
  /\ cl' = [cl EXCEPT ![p].pc = "holding"]
  /\ UNCHANGED << contracts, header, merkleRoots, wal, disk, reg, hdb, ed, ck >>

\* Return: the lookup under cs.mu; an absent id is the critical error
Return_Lookup(p) ==
  /\ cl[p].pc = "holding"
  /\ cl' = [cl EXCEPT ![p].pc = IF Present(cl[p].id) THEN "ret_unlock" ELSE "panicked"]
  /\ UNCHANGED << contracts, header, merkleRoots, mu, wal, disk, reg, hdb, ed, ck >>

\* Return: safeContract.mu.Unlock()
Return_Unlock(p) ==
  /\ cl[p].pc = "ret_unlock"
  /\ mu' = [mu EXCEPT ![cl[p].id] = NoOne]
  /\ cl' = [cl EXCEPT ![p] = ClInit]
  /\ UNCHANGED << contracts, header, merkleRoots, wal, disk, reg, hdb, ed, ck >>

\* a Delete that goes on to the unlock whether or not it found the id
Delete_RemoveUnchecked(p) ==
  /\ cl[p].pc = "holding"
  /\ contracts' = contracts \ {cl[p].id}
  /\ cl' = [cl EXCEPT ![p].pc = "del_unlock"]
  /\ UNCHANGED << header, merkleRoots, mu, wal, disk, reg, hdb, ed, ck >>

\* Delete: the lookup and the removal under cs.mu; an absent id is a no-op
Delete_Remove(p) ==
  /\ cl[p].pc = "holding"
  /\ IF Present(cl[p].id)
     THEN /\ contracts' = contracts \ {cl[p].id}
          /\ cl' = [cl EXCEPT ![p].pc = "del_unlock"]
     ELSE /\ contracts' = contracts
          /\ cl' = [cl EXCEPT ![p].pc = "deleted"]
  /\ UNCHANGED << header, merkleRoots, mu, wal, disk, reg, hdb, ed, ck >>

\* Delete: safeContract.mu.Unlock(), after cs.mu was released
Delete_Unlock(p) ==
  /\ cl[p].pc = "del_unlock"
  /\ mu' = [mu EXCEPT ![cl[p].id] = NoOne]
  /\ cl' = [cl EXCEPT ![p] = ClInit]
  /\ UNCHANGED << contracts, header, merkleRoots, wal, disk, reg, hdb, ed, ck >>

\* ---- the read-only operations: one critical section of cs.mu each
\* a View that takes the root from the sector roots instead of the header
ViewFromRoots(id) ==
  IF Present(id)
  THEN [NoResult EXCEPT !.op = "View", !.ok = TRUE,
          !.md = [Metadata(header[id]) EXCEPT
                    !.NewFileMerkleRoot = cachedMerkleRoot(merkleRoots[id])]]
  ELSE [NoResult EXCEPT !.op = "View"]

View(id) ==
  IF Present(id)
  THEN [NoResult EXCEPT !.op = "View", !.ok = TRUE, !.md = Metadata(header[id])]
  ELSE [NoResult EXCEPT !.op = "View"]

ViewAll == [NoResult EXCEPT !.op = "ViewAll", !.ok = TRUE,
                            !.all = {Metadata(header[c]) : c \in contracts}]

\* IDs (named CsIDs here: IDs is the set of all identifiers)
CsIDs == [NoResult EXCEPT !.op = "IDs", !.ok = TRUE, !.ids = contracts]

CsLen == [NoResult EXCEPT !.op = "Len", !.ok = TRUE, !.n = Cardinality(contracts)]

\* a caller that holds no contract, or holds one, reads the set
ReadOnly(p) == RegOpen /\ cl[p].pc = "idle"

View_Call(p) ==
  /\ ReadOnly(p)
  /\ \E id \in IDs : cl' = [cl EXCEPT ![p].res = View(id)]
  /\ UNCHANGED << contracts, header, merkleRoots, mu, wal, disk, reg, hdb, ed, ck >>

ViewAll_Call(p) ==
  /\ ReadOnly(p)
  /\ cl' = [cl EXCEPT ![p].res = ViewAll]
  /\ UNCHANGED << contracts, header, merkleRoots, mu, wal, disk, reg, hdb, ed, ck >>

IDs_Call(p) ==
  /\ ReadOnly(p)
  /\ cl' = [cl EXCEPT ![p].res = CsIDs]
  /\ UNCHANGED << contracts, header, merkleRoots, mu, wal, disk, reg, hdb, ed, ck >>

Len_Call(p) ==
  /\ ReadOnly(p)
  /\ cl' = [cl EXCEPT ![p].res = CsLen]
  /\ UNCHANGED << contracts, header, merkleRoots, mu, wal, disk, reg, hdb, ed, ck >>

\* ---------------------------------------------------------------- NewEditor
\* the owner thread of e holds the lock of its contract
OthersUnchanged == UNCHANGED << contracts, header, merkleRoots, wal, disk, reg, cl, ck >>

\* contractSet.Acquire(id): the lookup
NewEditor_Acquire(e) ==
  /\ RegOpen /\ ed[e].pc = "new"
  /\ \E id \in IDs, height \in Heights[e] :
       ed' = [ed EXCEPT ![e] =
                IF Present(id)
                THEN [EdInit EXCEPT !.pc = "ne_lock", !.id = id, !.host = HostOf[id],
                                    !.height = height]
                ELSE [EdInit EXCEPT !.pc = "failed"]]
  /\ UNCHANGED << mu, hdb >> /\ OthersUnchanged

\* a NewEditor that gives the lock back as soon as it has read the header
NewEditor_LockTransient(e) ==
  /\ ed[e].pc = "ne_lock"
  /\ CanLock(ed[e].id)
  /\ ed' = [ed EXCEPT ![e].pc = "ne_dial", ![e].contract = header[ed[e].id]]
  /\ UNCHANGED << mu, hdb, contracts, header, merkleRoots, wal, disk, reg, cl, ck >>

\* contractSet.Acquire(id): the contract's lock; contract := sc.header
NewEditor_Lock(e) ==
  /\ ed[e].pc = "ne_lock"
  /\ CanLock(ed[e].id)
  /\ mu' = [mu EXCEPT ![ed[e].id] = e]
  /\ ed' = [ed EXCEPT ![e].pc = "ne_dial", ![e].contract = header[ed[e].id]]
  /\ UNCHANGED hdb /\ OthersUnchanged

\* a reputation update that counts a revision mismatch against the host
NewEditorReputationStrict(db, contract, err) ==
  IF err # "" THEN IncrementFailedInteractions(db, contract.HostPublicKey)
  ELSE IncrementSuccessfulInteractions(db, contract.HostPublicKey)

\* the deferred reputation update of NewEditor
NewEditorReputation(db, contract, err) ==
  IF err # "" /\ err # "revision mismatch"
  THEN IncrementFailedInteractions(db, contract.HostPublicKey)
  ELSE IF err = "" THEN IncrementSuccessfulInteractions(db, contract.HostPublicKey)
  ELSE db

\* the dial; on success the watcher goroutine and its closeChan are created
NewEditor_Dial(e) ==
  /\ ed[e].pc = "ne_dial"
  /\ \E ok \in BOOLEAN :
       IF ok
       THEN /\ ed' = [ed EXCEPT ![e].pc = "ne_rpc", ![e].conn = "open",
                                ![e].closeChan = "open", ![e].watcher = "waiting"]
            /\ hdb' = hdb
       ELSE /\ ed' = [ed EXCEPT ![e].pc = "ne_return", ![e].err = "dial"]
            /\ hdb' = NewEditorReputation(hdb, ed[e].contract, "dial")
  /\ UNCHANGED mu /\ OthersUnchanged

\* encoding.WriteObject(conn, modules.RPCReviseContract)
NewEditor_RPC(e) ==
  /\ ed[e].pc = "ne_rpc"
  /\ \E ok \in BOOLEAN :
       IF ok /\ ed[e].conn = "open"
       THEN /\ ed' = [ed EXCEPT ![e].pc = "ne_verify"]
            /\ hdb' = hdb
       ELSE /\ ed' = [ed EXCEPT ![e].pc = "ne_return", ![e].conn = "closed",
                                ![e].closeChan = "closed", ![e].chanCloses = @ + 1,
                                ![e].err = "couldn't initiate RPC"]
            /\ hdb' = NewEditorReputation(hdb, ed[e].contract, "couldn't initiate RPC")
  /\ UNCHANGED mu /\ OthersUnchanged

\* what verifyRecentRevision may answer
VerifyOutcomes == {"", "revision mismatch", "network error"}

\* verifyRecentRevision(conn, contract, host.Version)
NewEditor_Verify(e) ==
  /\ ed[e].pc = "ne_verify"
  /\ \E r \in VerifyOutcomes :
       /\ (r = "" => ed[e].conn = "open")
       /\ IF r = ""
          THEN ed' = [ed EXCEPT ![e].pc = "ne_return"]
          ELSE ed' = [ed EXCEPT ![e].pc = "ne_return", ![e].conn = "closed",
                                ![e].closeChan = "closed", ![e].chanCloses = @ + 1,
                                ![e].err = r]
       /\ hdb' = NewEditorReputation(hdb, ed[e].contract, r)
  /\ UNCHANGED mu /\ OthersUnchanged

\* the deferred contractSet.Return(id): the lookup under cs.mu
NewEditor_Return(e) ==
  /\ ed[e].pc = "ne_return"
  /\ ed' = [ed EXCEPT ![e].pc = IF Present(ed[e].id) THEN "ne_unlock" ELSE "ne_panicked"]
  /\ UNCHANGED << mu, hdb >> /\ OthersUnchanged

\* the deferred contractSet.Return(id): safeContract.mu.Unlock(); NewEditor returns
NewEditor_Unlock(e) ==
  /\ ed[e].pc = "ne_unlock"
  /\ mu' = [mu EXCEPT ![ed[e].id] = NoOne]
  /\ ed' = [ed EXCEPT ![e] = IF ed[e].err = ""
                              THEN [@ EXCEPT !.pc = "ready", !.made = TRUE,
                                             !.contract = ZeroHeader]
                              ELSE [EdInit EXCEPT !.pc = "failed",
                                      !.conn = ed[e].conn, !.closeChan = ed[e].closeChan,
                                      !.cancel = ed[e].cancel, !.watcher = ed[e].watcher]]
  /\ UNCHANGED hdb /\ OthersUnchanged

\* ------------------------------------------------------------------- Upload
RECURSIVE SumUploads(_)
SumUploads(S) ==
  IF S = {} THEN 0 ELSE LET e == CHOOSE x \in S : TRUE IN ed[e].uploads + SumUploads(S \ {e})

\* the Upload calls issued so far, on all Editors
UploadsIssued == SumUploads(Editors)

\* he.contractSet.Acquire(he.contractID): the lookup
Upload_Acquire(e) ==
  /\ ed[e].pc = "ready" /\ UploadsIssued < MaxUploads
  /\ \E d \in Data[e] :
       ed' = [ed EXCEPT ![e].uploads = @ + 1,
                        ![e].data = IF Present(ed[e].id) THEN d ELSE 0,
                        ![e].pc = IF Present(ed[e].id) THEN "up_lock" ELSE "ready",
                        ![e].err = IF Present(ed[e].id) THEN ""
                                   ELSE "contract not present in contract set"]
  /\ UNCHANGED << mu, hdb >> /\ OthersUnchanged

\* he.contractSet.Acquire(he.contractID): the contract's lock; contract := sc.header
Upload_Lock(e) ==
  /\ ed[e].pc = "up_lock"
  /\ CanLock(ed[e].id)
  /\ mu' = [mu EXCEPT ![ed[e].id] = e]
  /\ ed' = [ed EXCEPT ![e].pc = "up_check", ![e].contract = header[ed[e].id],
                      ![e].pre = [header |-> header[ed[e].id],
                                  roots |-> merkleRoots[ed[e].id],
                                  disk |-> disk[ed[e].id]]]
  /\ UNCHANGED hdb /\ OthersUnchanged

\* a funds check that also refuses funds equal to the price
InsufficientFundsOrEqual(contract, price) == contract.RenterFunds <= price

\* contract.RenterFunds().Cmp(sectorPrice) < 0
InsufficientFunds(contract, price) == contract.RenterFunds < price

\* contract.LastRevision().NewMissedProofOutputs[1].Value.Cmp(sectorCollateral) < 0
InsufficientCollateral(contract, collateral) == contract.MissedHost < collateral

\* a new root computed over the roots without the new sector
NewMerkleRootStale(roots, sectorRoot) == cachedMerkleRoot(roots)

\* newRoots := append(sc.merkleRoots, sectorRoot); merkleRoot := cachedMerkleRoot(newRoots)
NewMerkleRoot(roots, sectorRoot) == cachedMerkleRoot(Append(roots, sectorRoot))

\* an index that is always the first slot
SectorIndexFirst(roots) == 0

\* SectorIndex: uint64(len(sc.merkleRoots))
SectorIndex(roots) == Len(roots)

\* the price calculation, the two checks, the new root, the action and the revision
Upload_Validate(e) ==
  /\ ed[e].pc = "up_check"
  /\ LET host == Hosts[ed[e].host]
         contract == ed[e].contract
         price == sectorPrice(host, contract, ed[e].height)
         collateral == sectorCollateral(host, contract, ed[e].height)
         roots == merkleRoots[ed[e].id]
     IN ed' = [ed EXCEPT ![e] =
          IF InsufficientFunds(contract, price)
          THEN [@ EXCEPT !.pc = "up_return",
                         !.err = "contract has insufficient funds to support upload"]
          ELSE IF InsufficientCollateral(contract, collateral)
          THEN [@ EXCEPT !.pc = "up_return",
                         !.err = "contract has insufficient collateral to support upload"]
          ELSE [@ EXCEPT !.pc = "up_start", !.idx = SectorIndex(roots),
                         !.rev = newUploadRevision(contract,
                                   NewMerkleRoot(roots, MerkleRoot(ed[e].data)),
                                   price, collateral)]]
  /\ UNCHANGED << mu, hdb >> /\ OthersUnchanged

\* the deferred reputation update of runRevisionIteration
RevisionReputation(db, host, err) ==
  IF err # "" THEN IncrementFailedInteractions(db, host.PublicKey)
  ELSE IncrementSuccessfulInteractions(db, host.PublicKey)

\* what a write or read on the connection may answer
NetOutcomes == {"", "network error", "revision mismatch"}

\* startRevision(he.conn, he.host)
Upload_Start(e) ==
  /\ ed[e].pc = "up_start"
  /\ \E r \in NetOutcomes :
       /\ (r = "" => ed[e].conn = "open")
       /\ IF r = ""
          THEN ed' = [ed EXCEPT ![e].pc = "up_actions", ![e].io = TRUE] /\ hdb' = hdb
          ELSE /\ ed' = [ed EXCEPT ![e].pc = "up_return", ![e].io = TRUE, ![e].err = r]
               /\ hdb' = RevisionReputation(hdb, Hosts[ed[e].host], r)
  /\ UNCHANGED mu /\ OthersUnchanged

\* encoding.WriteObject(he.conn, actions)
Upload_Actions(e) ==
  /\ ed[e].pc = "up_actions"
  /\ \E r \in {"", "network error"} :
       /\ (r = "" => ed[e].conn = "open")
       /\ IF r = ""
          THEN ed' = [ed EXCEPT ![e].pc = "up_nego"] /\ hdb' = hdb
          ELSE /\ ed' = [ed EXCEPT ![e].pc = "up_return", ![e].err = r]
               /\ hdb' = RevisionReputation(hdb, Hosts[ed[e].host], r)
  /\ UNCHANGED mu /\ OthersUnchanged

\* negotiateRevision(conn, rev, secretKey): the signed transaction and the error.
\* modules.ErrStopResponse ("stop") is answered together with the signed
\* transaction; every other error comes with the zero transaction.
NegotiateOutcomes(rev) ==
  { [txn |-> rev, err |-> ""], [txn |-> rev, err |-> "stop"],
    [txn |-> ZeroHeader, err |-> "network error"],
    [txn |-> ZeroHeader, err |-> "revision mismatch"] }

\* an end of runRevisionIteration that returns without looking at the error
RevisionResultSwallow(signedTxn, err) ==
  [txn |-> signedTxn, err |-> "", close |-> (err = "stop")]

\* the end of runRevisionIteration: what it returns for negotiateRevision's answer
\* and whether it closes the connection
RevisionResult(signedTxn, err) ==
  IF err = "stop" THEN [txn |-> signedTxn, err |-> "", close |-> TRUE]
  ELSE IF err # "" THEN [txn |-> ZeroHeader, err |-> err, close |-> FALSE]
  ELSE [txn |-> signedTxn, err |-> "", close |-> FALSE]

\* an Upload that goes on to RecordUpload whatever runRevisionIteration returned
AfterRevisionIgnoreErr(err) == "up_rechdr"

\* Upload after runRevisionIteration: an error returns, otherwise RecordUpload
AfterRevision(err) == IF err # "" THEN "up_return" ELSE "up_rechdr"

\* negotiateRevision and the return of runRevisionIteration
Upload_Negotiate(e) ==
  /\ ed[e].pc = "up_nego"
  /\ \E n \in NegotiateOutcomes(ed[e].rev) :
       /\ (n.err \in {"", "stop"} => ed[e].conn = "open")
       /\ LET r == RevisionResult(n.txn, n.err)
          IN /\ ed' = [ed EXCEPT ![e].pc = AfterRevision(r.err),
                                 ![e].txn = r.txn, ![e].err = r.err, ![e].nerr = n.err,
                                 ![e].conn = IF r.close THEN "closed" ELSE @]
             /\ hdb' = RevisionReputation(hdb, Hosts[ed[e].host], r.err)
  /\ UNCHANGED mu /\ OthersUnchanged

\* ------------------------------------------------------------ RecordUpload
\* the journal records: "setHeader" carries a header, "setRoot" a root and its index
updateSetHeader(id, h) ==
  [Name |-> "setHeader", ID |-> id, Header |-> h, Root |-> ZeroHash, Index |-> 0]

updateSetRoot(id, root, index) ==
  [Name |-> "setRoot", ID |-> id, Header |-> ZeroHeader, Root |-> root, Index |-> index]

\* applySetHeader: the header slot is overwritten
applySetHeader(c, h) == [c EXCEPT !.header = h]

RECURSIVE Zeros(_)
Zeros(n) == IF n <= 0 THEN << >> ELSE << ZeroHash >> \o Zeros(n - 1)

\* applySetRoot: the root slot at index is overwritten, the manifest growing to hold it
applySetRoot(c, root, index) ==
  [c EXCEPT !.roots = IF index < Len(@) THEN [@ EXCEPT ![index + 1] = root]
                      ELSE @ \o Zeros(index - Len(@)) \o << root >>]

\* the header RecordUpload installs: the signed revision and the spending totals
RecordUploadHeader(current, signedTxn, storagePrice, bandwidthPrice) ==
  [signedTxn EXCEPT !.StorageSpending = current.StorageSpending + storagePrice,
                    !.UploadSpending = current.UploadSpending + bandwidthPrice]

RECURSIVE RemoveFirst(_, _)
\* the journal without the first copy of record r
RemoveFirst(log, r) ==
  IF Len(log) = 0 THEN log
  ELSE IF Head(log) = r THEN Tail(log)
  ELSE << Head(log) >> \o RemoveFirst(Tail(log), r)

\* RecordUpload, first record: the header record is journaled and flushed, then
\* applied to the contract and its file; a write or sync failure changes nothing
Upload_RecordHeader(e) ==
  /\ ed[e].pc = "up_rechdr"
  /\ LET id == ed[e].id
         host == Hosts[ed[e].host]
         h == RecordUploadHeader(header[id], ed[e].txn,
                sectorStoragePrice(host, ed[e].contract, ed[e].height),
                sectorBandwidthPrice(host))
     IN \E ok \in BOOLEAN :
          IF ok
          THEN /\ wal' = Append(wal, updateSetHeader(id, h))
               /\ header' = [header EXCEPT ![id] = h]
               /\ disk' = [disk EXCEPT ![id] = applySetHeader(@, h)]
               /\ ed' = [ed EXCEPT ![e].pc = "up_recroot"]
          ELSE /\ UNCHANGED << wal, header, disk >>
               /\ ed' = [ed EXCEPT ![e].pc = "up_return", ![e].err = "persistence error"]
  /\ UNCHANGED << contracts, merkleRoots, mu, reg, hdb, cl, ck >>

\* RecordUpload, second record: the root record is journaled and flushed, applied,
\* and the journal transaction is released; on a failure the header record stays
\* journaled and applied
Upload_RecordRoot(e) ==
  /\ ed[e].pc = "up_recroot"
  /\ LET id == ed[e].id
         root == MerkleRoot(ed[e].data)
         index == Len(merkleRoots[id])
     IN \E ok \in BOOLEAN :
          IF ok
          THEN /\ wal' = RemoveFirst(wal, updateSetHeader(id, header[id]))
               /\ merkleRoots' = [merkleRoots EXCEPT ![id] =
                                    applySetRoot([roots |-> @], root, index).roots]
               /\ disk' = [disk EXCEPT ![id] = applySetRoot(@, root, index)]
               /\ ed' = [ed EXCEPT ![e].pc = "up_return"]
          ELSE /\ UNCHANGED << wal, merkleRoots, disk >>
               /\ ed' = [ed EXCEPT ![e].pc = "up_return", ![e].err = "persistence error"]
  /\ UNCHANGED << contracts, header, mu, reg, hdb, cl, ck >>

\* the deferred he.contractSet.Return(he.contractID): the lookup under cs.mu
Upload_Return(e) ==
  /\ ed[e].pc = "up_return"
  /\ ed' = [ed EXCEPT ![e].pc = IF Present(ed[e].id) THEN "up_unlock" ELSE "up_panicked"]
  /\ UNCHANGED << mu, hdb >> /\ OthersUnchanged

\* the deferred Return: safeContract.mu.Unlock(); Upload returns
Upload_Unlock(e) ==
  /\ ed[e].pc = "up_unlock"
  /\ mu' = [mu EXCEPT ![ed[e].id] = NoOne]
  /\ ed' = [ed EXCEPT ![e].pc = "ready", ![e].contract = ZeroHeader, ![e].data = 0,
                      ![e].idx = 0, ![e].rev = ZeroHeader, ![e].txn = ZeroHeader,
                      ![e].nerr = "", ![e].err = "", ![e].io = FALSE, ![e].pre = ZeroPre]
  /\ UNCHANGED hdb /\ OthersUnchanged

\* -------------------------------------------------------------------- Close
\* a Close that calls shutdown without the once guard
OnceAlwaysFresh(e) == "fresh"

\* he.once: "fresh" until a caller enters Do, "running" while shutdown runs
OnceState(e) == ed[e].once

\* a thread calls he.Close() on an Editor that NewEditor returned
Close_Call(k) ==
  /\ ck[k].pc = "idle" /\ ck[k].calls < MaxCloses
  /\ \E e \in Editors :
       /\ ed[e].made
       /\ ck' = [ck EXCEPT ![k] = [pc |-> "once", e |-> e, calls |-> ck[k].calls + 1]]
  /\ UNCHANGED << contracts, header, merkleRoots, mu, wal, disk, reg, hdb, ed, cl >>

\* he.once.Do: the first caller runs shutdown, a caller arriving while it runs
\* waits, a later caller skips it
Close_Once(k) ==
  /\ ck[k].pc = "once"
  /\ LET e == ck[k].e
     IN \/ /\ OnceState(e) = "fresh"
           /\ ed' = [ed EXCEPT ![e].once = "running"]
           /\ ck' = [ck EXCEPT ![k].pc = "shutdown"]
        \/ /\ OnceState(e) = "done"
           /\ ed' = ed
           /\ ck' = [ck EXCEPT ![k].pc = "connclose"]
  /\ UNCHANGED << contracts, header, merkleRoots, mu, wal, disk, reg, hdb, cl >>

\* he.shutdown: the deadline, the best-effort settings exchange and stop
\* message, then close(he.closeChan), which panics on a closed channel
Close_Shutdown(k) ==
  /\ ck[k].pc = "shutdown"
  /\ LET e == ck[k].e
     IN /\ ed' = [ed EXCEPT ![e].shutdowns = @ + 1, ![e].once = "done",
                            ![e].closeChan = "closed", ![e].chanCloses = @ + 1]
        /\ ck' = [ck EXCEPT ![k].pc = IF ed[e].closeChan = "closed" THEN "panicked"
                                      ELSE "connclose"]
  /\ UNCHANGED << contracts, header, merkleRoots, mu, wal, disk, reg, hdb, cl >>

\* return he.conn.Close()
Close_Conn(k) ==
  /\ ck[k].pc = "connclose"
  /\ ed' = [ed EXCEPT ![ck[k].e].conn = "closed"]
  /\ ck' = [ck EXCEPT ![k].pc = "idle"]
  /\ UNCHANGED << contracts, header, merkleRoots, mu, wal, disk, reg, hdb, cl >>

\* ------------------------------------------------- cancel and the watcher
\* the goroutine NewEditor starts after the dial: select on cancel and closeChan.
\* ed[e].cancel: "idle", "fired" (while closeChan was open) or "late" (fired
\* after closeChan was closed); ed[e].watcher: "none", "waiting", and how it
\* ended: "closed_conn" (the cancel case) or "released" (the closeChan case)

\* the cancel channel of a session whose connection was established fires
Cancel_Fire(e) ==
  /\ ed[e].watcher # "none" /\ ed[e].cancel = "idle"
  /\ ed' = [ed EXCEPT ![e].cancel = IF ed[e].closeChan = "closed" THEN "late" ELSE "fired"]
  /\ UNCHANGED << contracts, header, merkleRoots, mu, wal, disk, reg, hdb, cl, ck >>

\* a select with the cancel case alone
WatcherCasesNoRelease(e) == IF ed[e].cancel # "idle" THEN {"cancel"} ELSE {}

\* the cases of the select that are ready; with both ready either may be taken
WatcherCases(e) ==
  (IF ed[e].cancel # "idle" THEN {"cancel"} ELSE {})
    \cup (IF ed[e].closeChan = "closed" THEN {"closeChan"} ELSE {})

\* the watcher wakes up: case <-cancel: conn.Close(); case <-closeChan: nothing
Watcher_Step(e) ==
  /\ ed[e].watcher = "waiting"
  /\ \E case \in WatcherCases(e) :
       ed' = [ed EXCEPT ![e].watcher = IF case = "cancel" THEN "closed_conn" ELSE "released",
                        ![e].conn = IF case = "cancel" THEN "closed" ELSE @]
  /\ UNCHANGED << contracts, header, merkleRoots, mu, wal, disk, reg, hdb, cl, ck >>

\* ----------------------------------------------------------- NewContractSet
\* file names, as their parts: the contract files and the journal
FileName(c) == << c, ".", "contract" >>

RECURSIVE LastDot(_, _)
\* the position of the last "." among the first n parts of name, 0 if none
LastDot(name, n) ==
  IF n = 0 THEN 0 ELSE IF name[n] = "." THEN n ELSE LastDot(name, n - 1)

\* filepath.Ext: the suffix beginning at the final dot, empty if there is no dot
Ext(name) ==
  LET i == LastDot(name, Len(name))
  IN IF i = 0 THEN << >> ELSE SubSeq(name, i, Len(name))

\* the extension the loader compares with: "contract"
contractExtension == << "contract" >>

\* the contract files NewContractSet loads
LoadedFiles(files) == {c \in files : Ext(FileName(c)) = contractExtension}

\* a replay that passes over the records of contracts it does not know
RECURSIVE applyRecoveredUpdatesSkip(_, _, _)
applyRecoveredUpdatesSkip(set, updates, fault) ==
  IF Len(updates) = 0 THEN [err |-> "", set |-> set]
  ELSE LET u == Head(updates)
       IN IF u.Name \notin {"setHeader", "setRoot"} \/ u.ID \notin DOMAIN set
          THEN applyRecoveredUpdatesSkip(set, Tail(updates), fault - 1)
          ELSE IF fault = 1 THEN [err |-> "persistence error", set |-> set]
          ELSE applyRecoveredUpdatesSkip(
                 [set EXCEPT ![u.ID] = IF u.Name = "setHeader"
                                       THEN applySetHeader(@, u.Header)
                                       ELSE applySetRoot(@, u.Root, u.Index)],
                 Tail(updates), fault - 1)

RECURSIVE applyRecoveredUpdates(_, _, _)
\* the replay: records in order, each applied and synced before the next; the
\* first record of an unknown contract, or whose apply or sync fails (fault names
\* its position, 0 for none), ends it with an error
applyRecoveredUpdates(set, updates, fault) ==
  IF Len(updates) = 0 THEN [err |-> "", set |-> set]
  ELSE LET u == Head(updates)
       IN IF u.Name \notin {"setHeader", "setRoot"}
          THEN applyRecoveredUpdates(set, Tail(updates), fault - 1)
          ELSE IF u.ID \notin DOMAIN set THEN [err |-> "no such contract", set |-> set]
          ELSE IF fault = 1 THEN [err |-> "persistence error", set |-> set]
          ELSE applyRecoveredUpdates(
                 [set EXCEPT ![u.ID] = IF u.Name = "setHeader"
                                       THEN applySetHeader(@, u.Header)
                                       ELSE applySetRoot(@, u.Root, u.Index)],
                 Tail(updates), fault - 1)

\* the process stops at any point and starts again: NewContractSet loads the
\* contract files and replays the journal; every thread and Editor is gone
Restart ==
  /\ RegOpen
  /\ \E fault \in 0..Len(wal) :
       LET loaded == LoadedFiles(DOMAIN disk)
           r == applyRecoveredUpdates([c \in loaded |-> disk[c]], wal, fault)
       IN /\ reg' = IF r.err = "" THEN "recovered" ELSE "failed"
          /\ contracts' = IF r.err = "" THEN loaded ELSE {}
          /\ header' = [c \in IDs |-> IF c \in loaded /\ r.err = ""
                                      THEN r.set[c].header ELSE ZeroHeader]
          /\ merkleRoots' = [c \in IDs |-> IF c \in loaded /\ r.err = ""
                                           THEN r.set[c].roots ELSE << >>]
          /\ disk' = [c \in IDs |-> IF c \in loaded THEN r.set[c] ELSE disk[c]]
  /\ mu' = [c \in IDs |-> NoOne]
  /\ ed' = [e \in Editors |-> EdInit]
  /\ cl' = [p \in Clients |-> ClInit]
  /\ ck' = [k \in Closers |-> CkInit]
  /\ UNCHANGED << wal, hdb >>

\* ---- the replay on its own: any loaded set, any recovered records
\* a header a recovered record may carry
RecoveredHeader(c) == [InitHeader(c) EXCEPT !.NewRevisionNumber = @ + 1,
                                            !.NewFileMerkleRoot = MerkleRoot(1)]

\* the records writeaheadlog.New may hand back: header and root records of the
\* contracts, and a record under a name the replay has no case for
RecoveredRecords ==
  {updateSetHeader(c, RecoveredHeader(c)) : c \in IDs}
    \cup {updateSetRoot(c, MerkleRoot(1), i) : c \in IDs, i \in {0, 1}}
    \cup {[Name |-> "other", ID |-> "", Header |-> ZeroHeader, Root |-> ZeroHash, Index |-> 0]}

\* NewContractSet before the replay: some set of contracts loaded from their
\* files, and the recovered records
InitReplay ==
  /\ contracts \in SUBSET IDs
  /\ disk = [c \in IDs |-> [header |-> InitHeader(c), roots |-> << >>]]
  /\ header = [c \in IDs |-> IF c \in contracts THEN disk[c].header ELSE ZeroHeader]
  /\ merkleRoots = [c \in IDs |-> << >>]
  /\ mu = [c \in IDs |-> NoOne]
  /\ wal \in UNION {[1..n -> RecoveredRecords] : n \in 0..MaxLog}
  /\ reg = "loading"
  /\ hdb = [succ |-> [k \in HostKeys |-> 0], fail |-> [k \in HostKeys |-> 0]]
  /\ ed = [e \in Editors |-> EdInit]
  /\ cl = [p \in Clients |-> ClInit]
  /\ ck = [k \in Closers |-> CkInit]

\* applyRecoveredUpdates(set, updates) and the return of NewContractSet
Replay ==
  /\ reg = "loading"
  /\ \E fault \in 0..Len(wal) :
       LET r == applyRecoveredUpdates([c \in contracts |-> disk[c]], wal, fault)
       IN /\ reg' = IF r.err = "" THEN "recovered" ELSE "failed"
          /\ contracts' = IF r.err = "" THEN contracts ELSE {}
          /\ header' = [c \in IDs |-> IF c \in contracts /\ r.err = ""
                                      THEN r.set[c].header ELSE ZeroHeader]
          /\ merkleRoots' = [c \in IDs |-> IF c \in contracts /\ r.err = ""
                                           THEN r.set[c].roots ELSE << >>]
          /\ disk' = [c \in IDs |-> IF c \in contracts THEN r.set[c] ELSE disk[c]]
  /\ UNCHANGED << mu, wal, hdb, ed, cl, ck >>

\* --------------------------------------------------------------------- spec
\* the callers of Acquire, Return and Delete
RegistryStep(S) ==
  \/ \E p \in S : Acquire_Lookup(p)
  \/ \E p \in S : Acquire_Lock(p)
  \/ \E p \in S : Return_Lookup(p)
  \/ \E p \in S : Return_Unlock(p)
  \/ \E p \in S : Delete_Remove(p)
  \/ \E p \in S : Delete_Unlock(p)

\* the callers of the read-only operations
ReadStep(S) ==
  \/ \E p \in S : View_Call(p)
  \/ \E p \in S : ViewAll_Call(p)
  \/ \E p \in S : IDs_Call(p)
  \/ \E p \in S : Len_Call(p)

\* the owner threads of the Editors in S
EditorStep(S) ==
  \/ \E e \in S : NewEditor_Acquire(e)
  \/ \E e \in S : NewEditor_Lock(e)
  \/ \E e \in S : NewEditor_Dial(e)
  \/ \E e \in S : NewEditor_RPC(e)
  \/ \E e \in S : NewEditor_Verify(e)
  \/ \E e \in S : NewEditor_Return(e)
  \/ \E e \in S : NewEditor_Unlock(e)
  \/ \E e \in S : Upload_Acquire(e)
  \/ \E e \in S : Upload_Lock(e)
  \/ \E e \in S : Upload_Validate(e)
  \/ \E e \in S : Upload_Start(e)
  \/ \E e \in S : Upload_Actions(e)
  \/ \E e \in S : Upload_Negotiate(e)
  \/ \E e \in S : Upload_RecordHeader(e)
  \/ \E e \in S : Upload_RecordRoot(e)
  \/ \E e \in S : Upload_Return(e)
  \/ \E e \in S : Upload_Unlock(e)

\* the threads calling Close
CloseStep ==
  \/ \E k \in Closers : Close_Call(k)
  \/ \E k \in Closers : Close_Once(k)
  \/ \E k \in Closers : Close_Shutdown(k)
  \/ \E k \in Closers : Close_Conn(k)

\* Editors and the callers of Acquire, Return and Delete, with restarts
Next == RegistryStep({"p1"}) \/ EditorStep(Editors) \/ Restart

Spec == Init /\ [][Next]_vars

\* one Editor and the threads closing it
NextClose == EditorStep({"e1"}) \/ CloseStep

SpecClose == Init /\ [][NextClose]_vars

\* Editors and the callers of the read-only operations
NextView == EditorStep(Editors) \/ ReadStep({"p1"})

SpecView == Init /\ [][NextView]_vars

\* the callers of the ContractSet alone, two of them, with no Editor
NextRegistry == RegistryStep(Clients) \/ ReadStep(Clients)

SpecRegistry == Init /\ [][NextRegistry]_vars

\* the cancel signals and the watchers
CancelStep ==
  \/ \E e \in Editors : Cancel_Fire(e)
  \/ \E e \in Editors : Watcher_Step(e)

\* one Editor, the threads closing it, its cancel signal and its watcher; a
\* goroutine that can run is run in the end, and so is a Close once called
NextCancel == EditorStep({"e1"}) \/ CloseStep \/ CancelStep

SpecCancel ==
  /\ Init /\ [][NextCancel]_vars
  /\ \A e \in Editors : WF_vars(Watcher_Step(e))

\* the replay of NewContractSet on its own
NextReplay == Replay

SpecReplay == InitReplay /\ [][NextReplay]_vars

\* ------------------------------------------------------------------ claims
\* the positions at which an owner thread is between a successful Acquire and
\* the end of the matching Return
EditorHoldPCs ==
  {"ne_dial", "ne_rpc", "ne_verify", "ne_return", "ne_unlock",
   "up_check", "up_start", "up_actions", "up_nego", "up_rechdr", "up_recroot",
   "up_return", "up_unlock", "ne_panicked", "up_panicked"}

ClientHoldPCs == {"holding", "ret_unlock", "del_unlock", "deleted", "panicked"}

\* the callers between a successful Acquire(c) and the end of its Return or Delete
HoldersOf(c) ==
  {e \in Editors : ed[e].id = c /\ ed[e].pc \in EditorHoldPCs}
    \cup {p \in Clients : cl[p].id = c /\ cl[p].pc \in ClientHoldPCs}

\* the callers inside Acquire(c), past the lookup and waiting for the lock
WaitersOf(c) ==
  {e \in Editors : ed[e].id = c /\ ed[e].pc \in {"ne_lock", "up_lock"}}
    \cup {p \in Clients : cl[p].id = c /\ cl[p].pc = "acq_wait"}

\* C1: at most one caller at a time is between a successful Acquire(id) and its
\* matching Return(id) or Delete; an Acquire issued while the contract is held
\* stays inside Acquire until the holder has released it.
C1_MutualExclusion == \A c \in IDs : Cardinality(HoldersOf(c)) <= 1

\* a caller holds a contract while another one waits inside Acquire for it
C1_Witness == \E c \in IDs : HoldersOf(c) # {} /\ WaitersOf(c) # {}

\* C2: however many Close calls are made, one after another or at once, the
\* teardown body runs exactly once, closeChan is closed once and no call panics;
\* every call that got past the once guard finds the teardown done.
C2_CloseOnce ==
  /\ \A e \in Editors : ed[e].shutdowns <= 1 /\ ed[e].chanCloses <= 1
  /\ \A k \in Closers :
       /\ ck[k].pc # "panicked"
       /\ (ck[k].pc = "connclose" \/ (ck[k].pc = "idle" /\ ck[k].calls > 0))
            => (ed[ck[k].e].shutdowns = 1 /\ ed[ck[k].e].closeChan = "closed")

\* two threads have each completed a Close of the same Editor
C2_Witness ==
  \E k1, k2 \in Closers :
    /\ k1 # k2 /\ ck[k1].e = ck[k2].e
    /\ ck[k1].pc = "idle" /\ ck[k1].calls > 0
    /\ ck[k2].pc = "idle" /\ ck[k2].calls > 0
    /\ ed[ck[k1].e].shutdowns = 1

\* the two errors of Upload's checks
ValidationErrors ==
  {"contract has insufficient funds to support upload",
   "contract has insufficient collateral to support upload"}

\* e's Upload has failed one of its two checks and has not returned yet
ValidationFailed(e) ==
  ed[e].pc \in {"up_return", "up_unlock"} /\ ed[e].err \in ValidationErrors

\* nothing but e's own position changes in a step
FrameOf(e) ==
  /\ hdb' = hdb /\ header' = header /\ merkleRoots' = merkleRoots
  /\ disk' = disk /\ wal' = wal /\ contracts' = contracts
  /\ ed'[e].conn = ed[e].conn /\ ~ed'[e].io

\* C3: an Upload whose contract has funds strictly below the sector price, or a
\* missed-proof collateral output strictly below the required collateral, ends
\* with an error, having done no read or write on the connection and changed
\* neither reputation counter nor the contract's header or sector roots; with
\* funds equal to the price the funds check passes.
C3_ValidationBeforeNetwork ==
  [][\A e \in Editors :
       LET host == Hosts[ed[e].host]
           c == header[ed[e].id]
           price == sectorStoragePrice(host, c, ed[e].height) + sectorBandwidthPrice(host)
           collateral == sectorCollateral(host, c, ed[e].height)
       IN /\ (ed[e].pc = "up_check" /\ ed'[e].pc \in {"up_return", "up_start"}) =>
               /\ (ed'[e].pc = "up_return") <=>
                    (c.RenterFunds < price \/ c.MissedHost < collateral)
               /\ ed'[e].pc = "up_return" => (ed'[e].err \in ValidationErrors /\ FrameOf(e))
          /\ (ValidationFailed(e) /\ ed'[e].pc \in {"up_unlock", "ready", "up_panicked"}
                /\ ed'[e] # ed[e]) => FrameOf(e)
  ]_vars

\* an Upload is refused for lack of funds on a contract whose earlier Upload
\* passed the check with funds equal to the price
C3_Witness ==
  \E e \in Editors :
    /\ ValidationFailed(e)
    /\ ed[e].err = "contract has insufficient funds to support upload"
    /\ ed[e].contract.RenterFunds = 0 /\ ed[e].contract.NewRevisionNumber = 2
    /\ ~ed[e].io

\* e's Upload has come to its end with an error and has not returned yet
UploadFailed(e) == ed[e].pc \in {"up_return", "up_unlock"} /\ ed[e].err # ""

\* the records of the journal
Journal == {wal[i] : i \in DOMAIN wal}

C5_CrashAtomicCommit ==
  (reg # "open") =>
    \A r \in Journal :
      r.Name = "setHeader" =>
        /\ reg = "recovered"
        /\ r.ID \in contracts
        /\ header[r.ID].NewRevisionNumber >= r.Header.NewRevisionNumber
        /\ merkleRoots[r.ID] = disk[r.ID].roots

\* the contract has a header record in the journal: a RecordUpload is, or ended,
\* between its header record and its root record
HeaderPending(c) == \E r \in Journal : r.Name = "setHeader" /\ r.ID = c

Committing(c) ==
  {e \in Editors : /\ ed[e].id = c /\ mu[c] = e /\ ed[e].txn # ZeroHeader
                   /\ ed[e].pc \in {"up_rechdr", "up_recroot", "up_return", "up_unlock"}}

\* the header the commit of e's Upload installs
CommittedHeader(e) ==
  RecordUploadHeader(ed[e].pre.header, ed[e].txn,
     sectorStoragePrice(Hosts[ed[e].host], ed[e].contract, ed[e].height),
     sectorBandwidthPrice(Hosts[ed[e].host]))

\* the headers a reader of contract c may be shown: the header as the last
\* finished operation left it or, while an Upload is committing on c, the
\* header from before that commit or the whole header the commit installs
UntornHeaders(c) ==
  IF Committing(c) = {} THEN {header[c]}
  ELSE UNION {{ed[e].pre.header, CommittedHeader(e)} : e \in Committing(c)}

HandshakePCs == {"ne_dial", "ne_rpc", "ne_verify"}

\* C8, as claimed: NewEditor does not hold the contract's lock during the dial,
\* the RPC marker write or the handshake.
C8_TransientLock ==
  \A e \in Editors : ed[e].pc \in HandshakePCs => mu[ed[e].id] # e

\* C8, amended: NewEditor holds the contract's lock from its Acquire to its
\* deferred Return, so during the dial, the RPC marker write and the handshake
\* the lock is NewEditor's and no other caller is past Acquire on that contract.
C8_LockHeldThroughHandshake ==
  \A e \in Editors :
    ed[e].pc \in HandshakePCs \cup {"ne_return", "ne_unlock"} =>
      /\ mu[ed[e].id] = e
      /\ \A p \in Clients : ~(cl[p].id = ed[e].id /\ cl[p].pc \in ClientHoldPCs)
      /\ \A f \in Editors \ {e} : ~(ed[f].id = ed[e].id /\ ed[f].pc \in EditorHoldPCs)

\* NewEditor is in its handshake while another caller waits in Acquire for the
\* same contract
C8_Witness ==
  \E e \in Editors : ed[e].pc = "ne_verify" /\ WaitersOf(ed[e].id) \ {e} # {}

\* C9, as claimed: once Upload is over, on whatever path, the contract's lock is
\* not held by that session.
C9_UploadReleases ==
  \A e \in Editors :
    (ed[e].made /\ ed[e].pc \in {"ready", "up_panicked"}) => mu[ed[e].id] # e

\* the positions of Upload from the network exchange to the end of the commit
ExchangePCs == {"up_actions", "up_nego", "up_rechdr", "up_recroot"}

ConstructionPCs == {"ne_lock", "ne_dial", "ne_rpc", "ne_verify", "ne_return", "ne_unlock"}

\* the counters db with d added to the successes and f to the failures of key
Counted(db, key, d, f) ==
  [succ |-> [db.succ EXCEPT ![key] = @ + d], fail |-> [db.fail EXCEPT ![key] = @ + f]]

\* C11: a NewEditor call that found its contract changes the reputation counters
\* once, at the step that settles its result: success+1 when the handshake
\* succeeded, failure+1 when the dial, the RPC marker write or the handshake
\* failed with an error that is no revision mismatch, nothing on a revision
\* mismatch; a failure after the dial leaves the connection closed, and only a
\* call without error returns a session.
C11_ConstructionReputation ==
  [][\A e \in Editors :
       (ed[e].pc \in ConstructionPCs /\ ed'[e] # ed[e] /\ ed'[e].pc # "new") =>
         LET key == ed[e].contract.HostPublicKey
             err == ed'[e].err
         IN /\ (ed[e].pc \in HandshakePCs /\ ed'[e].pc = "ne_return") =>
                 /\ err = "" => hdb' = Counted(hdb, key, 1, 0)
                 /\ err = "revision mismatch" => hdb' = hdb
                 /\ err \notin {"", "revision mismatch"} => hdb' = Counted(hdb, key, 0, 1)
                 /\ (err # "" /\ ed[e].pc # "ne_dial") => ed'[e].conn = "closed"
                 /\ (err # "" /\ ed[e].pc = "ne_dial") => ed'[e].conn = "none"
                 /\ err = "" => (ed[e].pc = "ne_verify" /\ ed'[e].conn = "open")
            /\ ~(ed[e].pc \in HandshakePCs /\ ed'[e].pc = "ne_return") => hdb' = hdb
            /\ ed'[e].made => (ed[e].pc = "ne_unlock" /\ ed[e].err = "")
            /\ (ed[e].pc = "ne_unlock" /\ ed[e].err # "") =>
                 (~ed'[e].made /\ ed'[e].pc = "failed" /\ ed'[e].conn # "open")
  ]_vars

\* a NewEditor has failed its handshake with a revision mismatch, the connection
\* closed and no counter changed, after another one failed its dial and was counted
C11_Witness ==
  \E e \in Editors :
    /\ ed[e].pc = "ne_return" /\ ed[e].err = "revision mismatch"
    /\ ed[e].conn = "closed"
    /\ hdb.succ = [k \in HostKeys |-> 0]
    /\ \E k \in HostKeys : hdb.fail[k] = 1 /\ \A j \in HostKeys \ {k} : hdb.fail[j] = 0

\* the positions of Upload inside runRevisionIteration
IterationPCs == {"up_start", "up_actions", "up_nego"}

\* C12: the exchange of an Upload changes the reputation counters once, when it
\* ends: success+1 when it succeeded, failure+1 when it failed with an error that
\* is no revision mismatch, and nothing when it failed with a revision mismatch.
C12_UploadReputation ==
  [][\A e \in Editors :
       (ed[e].pc \in IterationPCs /\ ed'[e].pc \in {"up_rechdr", "up_return"}) =>
         LET key == Hosts[ed[e].host].PublicKey
             err == ed'[e].err
         IN /\ err = "" => hdb' = Counted(hdb, key, 1, 0)
            /\ err = "revision mismatch" => hdb' = hdb
            /\ err \notin {"", "revision mismatch"} => hdb' = Counted(hdb, key, 0, 1)
  ]_vars

\* C13: when an Acquire(id) returns the contract as acquired, by a plain caller,
\* by NewEditor or by Upload, id is in the registry's map at that moment.
C13_AcquirePresent ==
  [][/\ \A p \in Clients :
          (cl[p].pc = "acq_wait" /\ cl'[p].pc = "holding") => cl[p].id \in contracts'
     /\ \A e \in Editors :
          \/ ~(ed[e].pc \in {"ne_lock", "up_lock"} /\ ed'[e].pc \in {"ne_dial", "up_check"})
          \/ ed[e].id \in contracts'
  ]_vars

\* what a Delete does besides the removal and the release: the caller is the
\* holder, a found id is removed by the first step and its lock released by the
\* second, no other entry or lock changes, and a Delete that finds the id absent
\* changes neither the map nor any lock
DeleteFrame ==
  \A p \in Clients :
    LET c == cl[p].id IN
    /\ (cl[p].pc = "holding" /\ cl'[p].pc \in {"del_unlock", "deleted"}) =>
         /\ mu[c] = p
         /\ cl'[p].pc = "del_unlock" <=> c \in contracts
         /\ contracts' = contracts \ {c}
         /\ \A d \in IDs \ {c} : mu'[d] = mu[d]
         /\ cl'[p].pc = "deleted" => (contracts' = contracts /\ mu' = mu)
    /\ cl[p].pc = "del_unlock" =>
         /\ c \notin contracts /\ mu[c] = p
         /\ cl'[p] # cl[p] =>
              /\ contracts' = contracts /\ mu' = [mu EXCEPT ![c] = NoOne]
              /\ cl'[p].pc = "idle"

\* C14, as claimed: the frame of Delete and, in one step with respect to the
\* other callers, the removal of the id and the release of its lock: whenever an
\* id leaves the map its lock is free.
C14_DeleteAtomic ==
  [][/\ DeleteFrame
     /\ \A c \in IDs : (c \in contracts /\ c \notin contracts') => mu'[c] = NoOne
  ]_vars

\* C14, amended: Delete by the holder removes the id from the map and after
\* that, in a later step, releases the contract's lock: in between the other
\* callers see the id absent and the lock held, never the lock freed by the
\* Delete with the id still present; no other entry or lock changes, and a
\* Delete of an absent id changes neither the map nor any lock.
C14_DeleteTwoSteps ==
  [][/\ DeleteFrame
     /\ \A c \in IDs : (c \in contracts /\ c \notin contracts') =>
          \E p \in Clients : mu'[c] = p /\ mu[c] = p /\ cl'[p].pc = "del_unlock"
     /\ \A c \in IDs : (mu[c] \in Clients /\ mu'[c] = NoOne /\ c \in contracts') =>
          cl[mu[c]].pc = "ret_unlock"
  ]_vars

\* while one caller is between the removal and the release, the other one has
\* listed the ids without the removed one
C14_Witness ==
  \E p \in Clients : \E q \in Clients \ {p} :
    /\ cl[p].pc = "del_unlock" /\ mu[cl[p].id] = p
    /\ cl[q].res.op = "IDs" /\ cl[p].id \notin cl[q].res.ids
    /\ cl[q].res.ids # {}

\* C15: Return(id) of an id in the map unlocks that contract's lock and no
\* other, and leaves the map as it is; Return(id) of an id not in the map takes
\* the fatal path and unlocks nothing; and a caller that returns only what it
\* acquired and did not itself delete never takes the fatal path.
C15_ReturnSemantics ==
  [][\A p \in Clients :
       LET c == cl[p].id IN
       /\ (cl[p].pc = "holding" /\ cl'[p].pc \in {"ret_unlock", "panicked"}) =>
            /\ cl'[p].pc = "ret_unlock" <=> c \in contracts
            /\ mu' = mu /\ contracts' = contracts
       /\ (cl[p].pc = "ret_unlock" /\ cl'[p] # cl[p]) =>
            /\ mu[c] = p /\ mu' = [mu EXCEPT ![c] = NoOne]
            /\ contracts' = contracts /\ cl'[p].pc = "idle"
       /\ cl[p].pc = "panicked" => (cl'[p] = cl[p] /\ mu'[c] = mu[c])
       /\ cl'[p].pc # "panicked"
  ]_vars

\* C15 without its last sentence: the two branches of Return
ReturnBranches ==
  [][\A p \in Clients :
       LET c == cl[p].id IN
       /\ (cl[p].pc = "holding" /\ cl'[p].pc \in {"ret_unlock", "panicked"}) =>
            /\ cl'[p].pc = "ret_unlock" <=> c \in contracts
            /\ mu' = mu /\ contracts' = contracts
       /\ (cl[p].pc = "ret_unlock" /\ cl'[p] # cl[p]) =>
            /\ mu[c] = p /\ mu' = [mu EXCEPT ![c] = NoOne]
            /\ contracts' = contracts /\ cl'[p].pc = "idle"
       /\ cl[p].pc = "panicked" => (cl'[p] = cl[p] /\ mu'[c] = mu[c])
  ]_vars

\* the contract files of the directory
ContractFiles == DOMAIN disk

\* C16: the registry a successful NewContractSet returns holds exactly the
\* contracts of the directory's contract files: Len() is their number and IDs()
\* their ids, and each holds what its file and the journal's records give it.
C16_LoadsEveryFile ==
  reg = "recovered" =>
    /\ contracts = ContractFiles
    /\ CsLen.n = Cardinality(ContractFiles)
    /\ CsIDs.ids = ContractFiles
    /\ \A c \in ContractFiles : header[c] = disk[c].header /\ merkleRoots[c] = disk[c].roots

\* record i of the journal is a header or root record
IsSetRecord(i) == wal[i].Name \in {"setHeader", "setRoot"}

\* record i of the journal names a contract that was not loaded
Unknown(i) == IsSetRecord(i) /\ wal[i].ID \notin contracts

\* the file of its contract after record u
Applied(files, u) ==
  IF u.Name = "setHeader" /\ u.ID \in DOMAIN files
  THEN [files EXCEPT ![u.ID].header = u.Header]
  ELSE IF u.Name = "setRoot" /\ u.ID \in DOMAIN files
  THEN [files EXCEPT ![u.ID].roots =
          IF u.Index < Len(@) THEN [j \in 1..Len(@) |-> IF j = u.Index + 1 THEN u.Root ELSE @[j]]
          ELSE [j \in 1..(u.Index + 1) |->
                  IF j <= Len(@) THEN @[j] ELSE IF j = u.Index + 1 THEN u.Root ELSE ZeroHash]]
  ELSE files

RECURSIVE AppliedUpTo(_, _)
\* the files after the first m records of the journal, in order
AppliedUpTo(files, m) == IF m = 0 THEN files ELSE Applied(AppliedUpTo(files, m - 1), wal[m])

\* C17: the replay takes the recovered records in order. It fails, and
\* NewContractSet returns no registry, at the first header or root record of a
\* contract that was not loaded, or at an earlier record whose apply or sync
\* fails; every record before the failing one has been applied to its file and
\* none at or after it; with no failing record all are applied and the registry
\* is the loaded set.
C17_ReplayStopsAtUnknown ==
  [][(reg = "loading" /\ reg' # "loading") =>
       LET n == Len(wal)
           files == [c \in IDs |-> disk[c]]
       IN /\ reg' = "recovered" =>
               /\ \A i \in 1..n : ~Unknown(i)
               /\ disk' = AppliedUpTo(files, n)
               /\ contracts' = contracts
               /\ \A c \in contracts :
                    header'[c] = disk'[c].header /\ merkleRoots'[c] = disk'[c].roots
          /\ reg' = "failed" =>
               /\ contracts' = {}
               /\ \E k \in 1..n :
                    /\ IsSetRecord(k)
                    /\ \A i \in 1..(k - 1) : ~Unknown(i)
                    /\ disk' = AppliedUpTo(files, k - 1)
          /\ (\E i \in 1..n : Unknown(i)) => reg' = "failed"
          /\ reg' \in {"recovered", "failed"}
  ]_vars

\* a replay has failed at the third record, of a contract that was not loaded,
\* after applying a header record and a root record of a loaded one
C17_Witness ==
  /\ reg = "failed" /\ Len(wal) = 3
  /\ \E c \in IDs, d \in IDs :
       /\ wal[1] = updateSetHeader(c, RecoveredHeader(c))
       /\ wal[2] = updateSetRoot(c, MerkleRoot(1), 1)
       /\ wal[3].ID = d /\ wal[3].Name = "setHeader"
       /\ disk[c] = [header |-> RecoveredHeader(c), roots |-> << ZeroHash, MerkleRoot(1) >>]
       /\ disk[d].header = InitHeader(d)

\* the watcher of e has returned
WatcherEnded(e) == ed[e].watcher \in {"closed_conn", "released"}

\* C18, as claimed: a watcher whose cancel fired before closeChan was closed
\* ends by closing the connection, and a watcher whose closeChan was closed
\* first ends without closing it.
C18_CancelOrder ==
  \A e \in Editors :
    WatcherEnded(e) =>
      /\ ed[e].cancel = "fired" => ed[e].watcher = "closed_conn"
      /\ ed[e].cancel # "fired" => ed[e].watcher = "released"

\* C18, amended: the watcher ends by closing the connection only after cancel
\* fired and without closing it only after closeChan was closed, and when both
\* have happened before it runs it may end either way; on a closed connection no
\* step of an Upload's exchange succeeds; and once cancel has fired or closeChan
\* is closed the watcher terminates.
C18_WatcherTerminates ==
  /\ [](\A e \in Editors :
          /\ ed[e].watcher = "closed_conn" => (ed[e].cancel # "idle" /\ ed[e].conn = "closed")
          /\ ed[e].watcher = "released" => ed[e].closeChan = "closed"
          /\ (WatcherEnded(e) /\ ed[e].closeChan # "closed") => ed[e].watcher = "closed_conn"
          /\ (WatcherEnded(e) /\ ed[e].cancel = "idle") => ed[e].watcher = "released")
  /\ [][\A e \in Editors :
          (ed[e].conn = "closed" /\ ed[e].pc \in IterationPCs /\ ed'[e].pc # ed[e].pc) =>
             (ed'[e].pc = "up_return" /\ ed'[e].err # "")]_vars
  /\ \A e \in Editors :
       (ed[e].watcher = "waiting" /\ (ed[e].cancel # "idle" \/ ed[e].closeChan = "closed"))
          ~> WatcherEnded(e)
  /\ \A e \in Editors :
       (ed[e].watcher = "waiting" /\ ed[e].cancel # "idle")
          ~> (ed[e].conn = "closed" \/ ed[e].closeChan = "closed")

\* cancel fired while closeChan was open, the teardown then closed closeChan,
\* and the watcher ended by the closeChan case
C18_Witness ==
  \E e \in Editors :
    /\ ed[e].cancel = "fired" /\ ed[e].watcher = "released"
    /\ ed[e].made /\ ed[e].shutdowns = 1

\* e's Upload makes the step that ends a successful RecordUpload
Commits(e) == ed[e].pc = "up_recroot" /\ ed'[e].pc = "up_return" /\ ed'[e].err = ""

\* C19: the SectorIndex an Upload sends is the length of the manifest, read
\* with the contract's lock held, and still its length when the Upload commits;
\* a successful Upload appends the root of its sector at that index and changes
\* no earlier entry, and nothing else changes a manifest (a restart builds a
\* new registry): so the successful Uploads of a contract, from whatever
\* sessions, use the indices 0, 1, 2, ... once each.
C19_UniqueSectorIndex ==
  [][/\ \A e \in Editors :
          /\ (ed[e].pc = "up_check" /\ ed'[e].pc = "up_start") =>
               (ed'[e].idx = Len(merkleRoots[ed[e].id]) /\ mu[ed[e].id] = e)
          /\ ed[e].pc \in {"up_start", "up_actions", "up_nego", "up_rechdr", "up_recroot"} =>
               (ed[e].idx = Len(merkleRoots[ed[e].id]) /\ mu[ed[e].id] = e)
          /\ Commits(e) =>
               merkleRoots' = [merkleRoots EXCEPT ![ed[e].id] =
                                 Append(@, MerkleRoot(ed[e].data))]
     /\ \A c \in IDs :
          merkleRoots'[c] # merkleRoots[c] =>
            \/ \E e \in Editors :
                 /\ Commits(e) /\ ed[e].id = c
                 /\ Len(merkleRoots'[c]) = ed[e].idx + 1
                 /\ merkleRoots'[c][ed[e].idx + 1] = MerkleRoot(ed[e].data)
                 /\ \A i \in 1..Len(merkleRoots[c]) : merkleRoots'[c][i] = merkleRoots[c][i]
            \/ /\ ed' = [e \in Editors |-> EdInit]
               /\ merkleRoots'[c] = << >>
  ]_vars

\* two sessions bound to one contract have each uploaded a sector to it
C19_Witness ==
  \E c \in contracts : \E d1 \in Data["e1"], d2 \in Data["e2"] :
    /\ Len(merkleRoots[c]) = 2
    /\ {merkleRoots[c][1], merkleRoots[c][2]} = {MerkleRoot(d1), MerkleRoot(d2)}
    /\ mu[c] = NoOne

====
